---- MODULE Spec2Model ----
(***************************************************************************)
(* Model of src/cases/demo/demo_module.py.                                 *)
(*                                                                         *)
(*   init_model(df)          builds a pm.Model: one named node per         *)
(*                           pm.Normal / pm.Gamma / pm.Deterministic / ... *)
(*                           call, in source order, inside                 *)
(*                           `with pm.Model() as model`.                   *)
(*   load_realization(ds, r) reshapes one realization of the cube into a   *)
(*                           table indexed by (control, round).            *)
(*                                                                         *)
(* Measured concentrations are fixed-point integers in units of 5e-5, so   *)
(* 0.05 is 1000 and 0.07 is 1400; the table values used are even, which    *)
(* makes the halving in "obs control" exact.                               *)
(***************************************************************************)
EXTENDS Integers, Sequences, FiniteSets, TLC

VARIABLES
    tableA,     \* the table passed to the first init_model call
    tableB,     \* the table passed to every later call
    call,       \* number of init_model calls started
    pc,         \* 0 when no call runs, else the index in Program of the next
                \* declaration (Len(Program) + 1: the return statement)
    df,         \* the argument of the running call
    model,      \* the pm.Model under construction (sequence of nodes)
    results,    \* what each finished call gave its caller
    ds,         \* the dataset given to load_realization
    out,        \* what load_realization gave its caller
    sample,     \* one joint value of the latent deployment/mixing parameters
    value       \* the deterministic nodes evaluated at that value

vars == <<tableA, tableB, call, pc, df, model, results, ds, out, sample, value>>

buildVars   == <<tableA, tableB, call, pc, df, model, results>>
extractVars == <<ds, out>>
valueVars   == <<sample, value>>

(***************************************************************************)
(* Bounds                                                                  *)
(***************************************************************************)
MaxRound == 4       \* tables hold rounds 1..MaxRound
MaxCalls == 2       \* init_model calls per behaviour

Idle == 0

Absent == <<>>      \* a (plot-type, round) pair the table has no row for

T1 == <<"treatment", 1>>
T2 == <<"treatment", 2>>
T3 == <<"treatment", 3>>
C1 == <<"control", 1>>
C2 == <<"control", 2>>
C3 == <<"control", 3>>

RequiredKeys == {T1, T2, T3, C1, C2, C3}
Keys      == {"treatment", "control"} \X (1..MaxRound)
ExtraKeys == Keys \ RequiredKeys

\* rows of two analyte values; 0.05,0.04 and 0.07,0.05 of the end-to-end table
RowVals == {<<1000, 800>>, <<1400, 1000>>}

Present(t) == {k \in DOMAIN t : t[k] # Absent}

\* the six required rows, at most one of them missing
RequiredRows ==
    {r \in [RequiredKeys -> RowVals \cup {Absent}] :
        Cardinality({k \in RequiredKeys : r[k] = Absent}) <= 1}

\* the rows beyond round 3, at most one of them present
ExtraRows ==
    {e \in [ExtraKeys -> RowVals \cup {Absent}] :
        Cardinality({k \in ExtraKeys : e[k] # Absent}) <= 1}

NoExtraRows == [k \in ExtraKeys |-> Absent]

Table(r, e) == [k \in Keys |-> IF k \in RequiredKeys THEN r[k] ELSE e[k]]

ValidTable(t) == RequiredKeys \subseteq Present(t)

AgreeOnRequired(s, t) == \A k \in RequiredKeys : s[k] = t[k]

(***************************************************************************)
(* Array arithmetic on rows (numpy element-wise operators)                 *)
(***************************************************************************)
Sub(a, b)  == [i \in DOMAIN a |-> a[i] - b[i]]
Add(a, b)  == [i \in DOMAIN a |-> a[i] + b[i]]
Half(a)    == [i \in DOMAIN a |-> a[i] \div 2]

(***************************************************************************)
(* df.loc[plot_type, round]                                                *)
(***************************************************************************)
HasRow(t, k) == k \in DOMAIN t /\ t[k] # Absent
Loc(t, k)    == t[k]

(***************************************************************************)
(* The declarations of init_model, in source order.                        *)
(*   reads   : the df.loc[...] lookups of the call's arguments, in the     *)
(*             order Python evaluates them                                 *)
(*   parents : the previously bound Python variables the arguments use     *)
(***************************************************************************)
Latent(n, d, p, par) ==
    [name |-> n, kind |-> "latent", dist |-> d, params |-> p,
     parents |-> par, expr |-> "", reads |-> <<>>]

Det(n, e, par, r) ==
    [name |-> n, kind |-> "deterministic", dist |-> "", params |-> <<>>,
     parents |-> par, expr |-> e, reads |-> r]

Obs(n, d, p, par, r) ==
    [name |-> n, kind |-> "observation", dist |-> d, params |-> p,
     parents |-> par, expr |-> "", reads |-> r]

Program == <<
    Latent("wet feedstock mass", "Normal", <<"mu=12800", "sigma=100">>, {}),
    Latent("treatment area", "Normal", <<"mu=3200", "sigma=32">>, {}),
    Latent("sample depth", "Gamma", <<"mu=0.1", "sigma=0.025">>, {}),
    Latent("feedstock moisture fraction", "Normal",
           <<"mu=0.125", "sigma=0.025">>, {}),
    Det("dry feedstock mass",
        "(1 - feedstock moisture fraction) * wet feedstock mass",
        {"feedstock moisture fraction", "wet feedstock mass"}, <<>>),
    Det("application rate", "dry feedstock mass / treatment area",
        {"dry feedstock mass", "treatment area"}, <<>>),
    Latent("feedstock concentration", "Normal",
           <<"mu=[0.07, 0.05]", "sigma=[0.0035, 0.0025]">>, {}),
    Latent("soil density", "Normal", <<"mu=1e3", "sigma=100">>, {}),
    Det("soil mass", "soil density * sample depth",
        {"soil density", "sample depth"}, <<>>),
    Det("mixing fraction",
        "application rate / (application rate + soil mass)",
        {"application rate", "soil mass"}, <<>>),
    Det("mixed concentration",
        "mixing fraction * feedstock concentration + (1 - mixing fraction) * $1",
        {"mixing fraction", "feedstock concentration"}, <<T1>>),
    Det("enrichment", "mixed concentration - $1",
        {"mixed concentration"}, <<T1>>),
    Latent("enrichment sigma", "Exponential",
           <<"scale=1e-3", "shape=(1, 2)">>, {}),
    Obs("obs enriched", "Normal", <<"mu=enrichment", "sigma=enrichment sigma">>,
        {"enrichment", "enrichment sigma"}, <<T2, T1>>),
    Latent("control change", "Normal",
           <<"mu=0", "sigma=1e-3", "shape=(1, 2)">>, {}),
    Latent("control change sigma", "HalfNormal",
           <<"sigma=1e-3", "shape=(1, 2)">>, {}),
    Obs("obs control", "Normal",
        <<"mu=control change", "sigma=control change sigma">>,
        {"control change", "control change sigma"}, <<C3, C1, C2>>),
    Latent("norm loss mu", "Uniform", <<>>, {}),
    Latent("norm loss sigma", "Beta", <<"alpha=1", "beta=6">>, {}),
    Latent("norm loss", "Normal",
           <<"mu=norm loss mu", "sigma=norm loss sigma", "shape=(1, 2)">>,
           {"norm loss mu", "norm loss sigma"}),
    Det("concentration loss", "norm loss * enrichment",
        {"norm loss", "enrichment"}, <<>>),
    Det("weathered concentration",
        "$1 - (concentration loss - control change)",
        {"concentration loss", "control change"}, <<T2>>),
    Latent("weathered sigma", "Exponential",
           <<"scale=1e-3", "shape=(1, 2)">>, {}),
    Obs("obs weathered", "Normal",
        <<"mu=weathered concentration", "sigma=weathered sigma">>,
        {"weathered concentration", "weathered sigma"}, <<T3>>),
    Det("CDR potential (per mass)",
        "sum(feedstock concentration * [2.196, 3.621])",
        {"feedstock concentration"}, <<>>),
    Det("CDR potential (per area)",
        "application rate * CDR potential (per mass)",
        {"application rate", "CDR potential (per mass)"}, <<>>),
    Det("CDR (per area)",
        "sum(norm loss * feedstock concentration * [2.196, 3.621]) * application rate",
        {"norm loss", "feedstock concentration", "application rate"}, <<>>),
    Det("CDR [metric ton CO2]", "CDR (per area) * treatment area / 1e3",
        {"CDR (per area)", "treatment area"}, <<>>),
    Det("CDR completion [-]", "CDR (per area) / CDR potential (per area)",
        {"CDR (per area)", "CDR potential (per area)"}, <<>>)
>>

(***************************************************************************)
(* observed= of the three likelihood nodes, from the rows the arguments    *)
(* look up (d.reads, in evaluation order)                                  *)
(***************************************************************************)
ObservedValue(d, t) ==
    CASE d.name = "obs enriched"  ->
            Sub(Loc(t, d.reads[1]), Loc(t, d.reads[2]))
      [] d.name = "obs control"   ->
            Sub(Loc(t, d.reads[1]),
                Add(Half(Loc(t, d.reads[2])), Half(Loc(t, d.reads[3]))))
      [] d.name = "obs weathered" -> Loc(t, d.reads[1])
      [] OTHER                    -> <<>>

\* the table constants baked into a deterministic node's expression ($1, ...)
ExprConsts(d, t) ==
    IF d.kind = "deterministic"
    THEN [i \in DOMAIN d.reads |-> Loc(t, d.reads[i])]
    ELSE <<>>

\* the node one declaration adds to the graph
MakeNode(d, t) ==
    [name |-> d.name, kind |-> d.kind, dist |-> d.dist, params |-> d.params,
     parents |-> d.parents, expr |-> d.expr,
     consts |-> ExprConsts(d, t),
     observed |-> IF d.kind = "observation" THEN ObservedValue(d, t)
                  ELSE <<>>]

Names(g) == {g[i].name : i \in DOMAIN g}

\* the first lookup of a declaration that has no row, 0 when all have one
FirstMissing(d, t) ==
    IF \A i \in DOMAIN d.reads : HasRow(t, d.reads[i]) THEN 0
    ELSE CHOOSE i \in DOMAIN d.reads :
            /\ ~HasRow(t, d.reads[i])
            /\ \A j \in 1..(i - 1) : HasRow(t, d.reads[j])

NoModel == <<>>

\* the last declaration under another name
Statement_renamed(i) ==
    IF i = Len(Program) THEN [Program[i] EXCEPT !.name = "CDR completion"]
    ELSE Program[i]

\* "obs control" looks up round 1 where the source looks up round 3
Statement_controlRound1(i) ==
    IF Program[i].name = "obs control"
    THEN [Program[i] EXCEPT !.reads = <<C1, C1, C2>>]
    ELSE Program[i]

\* "weathered concentration" starts from round 3 instead of round 2
Statement_weatheredRound3(i) ==
    IF Program[i].name = "weathered concentration"
    THEN [Program[i] EXCEPT !.reads = <<T3>>]
    ELSE Program[i]

\* "obs enriched" subtracts the rounds the other way round
Statement_swappedRounds(i) ==
    IF Program[i].name = "obs enriched"
    THEN [Program[i] EXCEPT !.reads = <<T1, T2>>]
    ELSE Program[i]

\* "obs weathered" looks up the last round of the table instead of round 3
Statement_lastRound(i) ==
    IF Program[i].name = "obs weathered"
    THEN [Program[i] EXCEPT !.reads = << <<"treatment", MaxRound>> >>]
    ELSE Program[i]

\* the noise scale of the enrichment stage declared under the name
\* "enrichment"
Statement_collide(i) ==
    IF Program[i].name = "enrichment sigma"
    THEN [Program[i] EXCEPT !.name = "enrichment"]
    ELSE Program[i]

\* the i-th declaration statement of init_model
Statement(i) == Program[i]

TableFor(c) == IF c = 1 THEN tableA ELSE tableB

(***************************************************************************)
(* init_model                                                              *)
(***************************************************************************)
\* one graph kept across calls
FreshModel_shared(old) == old

\* the call and `with pm.Model() as model`: a fresh, empty graph
FreshModel(old) == <<>>

Call ==
    /\ pc = Idle
    /\ call < MaxCalls
    /\ call' = call + 1
    /\ df' = TableFor(call + 1)
    /\ model' = FreshModel(model)
    /\ pc' = 1
    /\ UNCHANGED <<tableA, tableB, results, extractVars, valueVars>>

\* one pm.<Distribution>(name, ...) or pm.Deterministic(name, ...) statement:
\* the arguments are evaluated first (a lookup of an absent row raises
\* KeyError), then the node is registered under its name (a name the graph
\* already holds raises ValueError); an exception leaves init_model
Declare ==
    /\ pc \in DOMAIN Program
    /\ LET d == Statement(pc)
           m == FirstMissing(d, df)
       IN  IF m # 0
           THEN /\ results' = Append(results,
                        [status |-> "KeyError", at |-> d.name, graph |-> NoModel])
                /\ pc' = Idle
                /\ model' = model
           ELSE IF d.name \in Names(model)
           THEN /\ results' = Append(results,
                        [status |-> "ValueError", at |-> d.name, graph |-> NoModel])
                /\ pc' = Idle
                /\ model' = model
           ELSE /\ model' = Append(model, MakeNode(d, df))
                /\ pc' = pc + 1
                /\ results' = results
    /\ UNCHANGED <<tableA, tableB, call, df, extractVars, valueVars>>

\* return model
Return ==
    /\ pc = Len(Program) + 1
    /\ results' = Append(results,
            [status |-> "ok", at |-> "return", graph |-> model])
    /\ pc' = Idle
    /\ UNCHANGED <<tableA, tableB, call, df, model, extractVars, valueVars>>

(***************************************************************************)
(* load_realization                                                        *)
(***************************************************************************)
NSamples  == 6      \* samples (first axis of the cube)
NAnalytes == 3      \* analyte columns (second axis), the last one is dropped
NReal     == 2      \* realizations (third axis)

\* raw plot-type tags: 1 and 0 are the tags the code maps, 2 is any other tag
Tags == {0, 1, 2}
SampleRounds == {1, 2, 3}

\* a label of the "control" column after replace(): a string, or a raw tag
\* the mapping left as it was
StrLabel(x) == [isStr |-> TRUE,  s |-> x,  i |-> 0]
RawLabel(n) == [isStr |-> FALSE, s |-> "", i |-> n]

\* a mapping that knows tag 1 only
Replace_controlOnly(tag) ==
    IF tag = 1 THEN StrLabel("control") ELSE RawLabel(tag)

\* data["control"].replace({1: "control", 0: "treatment"})
Replace(tag) ==
    IF tag = 1 THEN StrLabel("control")
    ELSE IF tag = 0 THEN StrLabel("treatment")
    ELSE RawLabel(tag)

\* ds.attrs["analytes"][:-1]
DropLast(q) == SubSeq(q, 1, Len(q) - 1)

\* ds["data"][:, :-1, realization], row i (realization is 0-based)
SliceRow(cube, i, realization) ==
    [a \in 1..(Len(cube[i]) - 1) |-> cube[i][a][realization + 1]]

\* order of the index labels: numbers before strings, numbers by value,
\* strings alphabetically
StrRank(x) == IF x = "control" THEN 1 ELSE 2

LabelLess(a, b) ==
    IF ~a.isStr /\ ~b.isStr THEN a.i < b.i
    ELSE IF ~a.isStr THEN TRUE
    ELSE IF ~b.isStr THEN FALSE
    ELSE StrRank(a.s) < StrRank(b.s)

\* lexicographic order on the index (control, round)
KeyLess(x, y) ==
    \/ LabelLess(x.control, y.control)
    \/ x.control = y.control /\ x.round < y.round

\* sort_index(): rows with equal keys keep their order
RECURSIVE InsertRow(_, _)
InsertRow(sorted, x) ==
    IF sorted = <<>> THEN <<x>>
    ELSE IF KeyLess(x, Head(sorted)) THEN <<x>> \o sorted
    ELSE <<Head(sorted)>> \o InsertRow(Tail(sorted), x)

\* the index set but never sorted
SortIndex_none(rows) == rows

RECURSIVE SortIndex(_)
SortIndex(rows) ==
    IF rows = <<>> THEN <<>>
    ELSE InsertRow(SortIndex(SubSeq(rows, 1, Len(rows) - 1)), rows[Len(rows)])

\* the frame before sorting: the slice with the two metadata columns inserted
\* and the plot-type tag replaced
Frame(d, realization) ==
    [i \in 1..Len(d.data) |->
        [control |-> Replace(d.control[i]),
         round   |-> d.round[i],
         vals    |-> SliceRow(d.data, i, realization)]]

LoadRealizationResult(d, realization) ==
    [columns |-> DropLast(d.analytes),
     rows    |-> SortIndex(Frame(d, realization))]

LoadRealization ==
    /\ out = <<>>
    /\ \E realization \in 0..(NReal - 1) :
            out' = <<[realization |-> realization,
                      table |-> LoadRealizationResult(ds, realization)]>>
    /\ UNCHANGED <<ds, buildVars, valueVars>>

\* every cell of the cube holds a different number
Cell(i, a, r) == 100 * i + 10 * a + r

Cube == [i \in 1..NSamples |-> [a \in 1..NAnalytes |-> [r \in 1..NReal |->
            Cell(i, a, r)]]]

AnalyteNames == [a \in 1..NAnalytes |-> a]

\* the (tag, round) combinations of a complete trial, control plots first
Combination(k) ==
    <<IF (k - 1) % 6 < 3 THEN 1 ELSE 0, ((k - 1) % 3) + 1>>

\* the orders in which n samples can be stored
RECURSIVE Orders(_)
Orders(n) ==
    IF n = 0 THEN {<<>>}
    ELSE UNION {{SubSeq(p, 1, k) \o <<n>> \o SubSeq(p, k + 1, n - 1) :
                    k \in 0..(n - 1)} : p \in Orders(n - 1)}

\* per-sample (tag, round) metadata: the combinations in any order, with at
\* most one sample given another tag and round
Metadata(n) ==
    {[i \in 1..n |-> IF i = j THEN q ELSE Combination(p[i])] :
        p \in Orders(n), j \in 0..n, q \in Tags \X SampleRounds}

Dataset(m) ==
    [data     |-> Cube,
     control  |-> [i \in 1..NSamples |-> m[i][1]],
     round    |-> [i \in 1..NSamples |-> m[i][2]],
     analytes |-> AnalyteNames]

(***************************************************************************)
(* The deterministic nodes of the deployment and mixing stages, evaluated  *)
(* at one joint value of their latent parents.  Values are rationals n/d   *)
(* in lowest terms with d > 0; NonFinite is the inf or nan a floating      *)
(* point division by zero gives, and every operation on it gives it again. *)
(***************************************************************************)
RECURSIVE GCD(_, _)
GCD(a, b) == IF b = 0 THEN a ELSE GCD(b, a % b)

Abs(x) == IF x < 0 THEN -x ELSE x

NonFinite == [n |-> 0, d |-> 0]

Rat(n, d) ==
    LET g == GCD(Abs(n), Abs(d))
        sg == IF d < 0 THEN -1 ELSE 1
    IN  [n |-> sg * (n \div g), d |-> sg * (d \div g)]

Finite(x) == x.d # 0

RAdd(x, y) == IF Finite(x) /\ Finite(y)
              THEN Rat(x.n * y.d + y.n * x.d, x.d * y.d) ELSE NonFinite
RSub(x, y) == IF Finite(x) /\ Finite(y)
              THEN Rat(x.n * y.d - y.n * x.d, x.d * y.d) ELSE NonFinite
RMul(x, y) == IF Finite(x) /\ Finite(y)
              THEN Rat(x.n * y.n, x.d * y.d) ELSE NonFinite
RDiv(x, y) == IF Finite(x) /\ Finite(y) /\ y.n # 0
              THEN Rat(x.n * y.d, x.d * y.n) ELSE NonFinite

One == Rat(1, 1)

RPositive(x) == Finite(x) /\ x.n > 0

\* values the latent parents can take: a Normal has every real in its
\* support, a Gamma the positive reals
WetMassVals  == {Rat(-12800, 1), Rat(12800, 1), Rat(12900, 1)}
AreaVals     == {Rat(-3200, 1), Rat(0, 1), Rat(3200, 1)}
MoistureVals == {Rat(1, 8), Rat(9, 8)}
DensityVals  == {Rat(-1000, 1), Rat(1000, 1), Rat(1100, 1)}
DepthVals    == {Rat(1, 10), Rat(1, 8)}

DryFeedstockMass(x) ==
    RMul(RSub(One, x.feedstock_moisture_fraction), x.wet_feedstock_mass)

ApplicationRate(x) == RDiv(DryFeedstockMass(x), x.treatment_area)

SoilMass(x) == RMul(x.soil_density, x.sample_depth)

\* a sign slip in the denominator
MixingFraction_minus(application_rate, soil_mass) ==
    RDiv(application_rate, RSub(application_rate, soil_mass))

MixingFraction(application_rate, soil_mass) ==
    RDiv(application_rate, RAdd(application_rate, soil_mass))

Evaluate ==
    /\ sample # <<>>
    /\ value = <<>>
    /\ value' = [dry_feedstock_mass |-> DryFeedstockMass(sample),
                 application_rate   |-> ApplicationRate(sample),
                 soil_mass          |-> SoilMass(sample),
                 mixing_fraction    |-> MixingFraction(ApplicationRate(sample),
                                                       SoilMass(sample))]
    /\ UNCHANGED <<sample, buildVars, extractVars>>


(***************************************************************************)
(* Specifications                                                          *)
(***************************************************************************)
InitBuild ==
    /\ \E r \in RequiredRows : \E e1 \in ExtraRows :
         \E e2 \in {e1, NoExtraRows} :
            /\ tableA = Table(r, e1)
            /\ tableB = Table(r, e2)
    /\ call = 0
    /\ pc = Idle
    /\ df = Absent
    /\ model = <<>>
    /\ results = <<>>

NoBuild ==
    /\ tableA = Absent
    /\ tableB = Absent
    /\ call = MaxCalls
    /\ pc = Idle
    /\ df = Absent
    /\ model = <<>>
    /\ results = <<>>

\* init_model, called on tableA and then on tableB: the same table, or the
\* same table without its row beyond round 3
Init ==
    /\ InitBuild
    /\ ds = <<>>
    /\ out = <<>>
    /\ sample = <<>>
    /\ value = <<>>

Next == Call \/ Declare \/ Return

Spec == Init /\ [][Next]_vars

\* load_realization, called once on a dataset
InitExtract ==
    /\ NoBuild
    /\ \E m \in Metadata(NSamples) : ds = Dataset(m)
    /\ out = <<>>
    /\ sample = <<>>
    /\ value = <<>>

NextExtract == LoadRealization

SpecExtract == InitExtract /\ [][NextExtract]_vars

\* the deterministic nodes at one value of the latent parameters
InitValues ==
    /\ NoBuild
    /\ ds = <<>>
    /\ out = <<>>
    /\ sample \in [wet_feedstock_mass          : WetMassVals,
                   treatment_area              : AreaVals,
                   feedstock_moisture_fraction : MoistureVals,
                   soil_density                : DensityVals,
                   sample_depth                : DepthVals]
    /\ value = <<>>

NextValues == Evaluate

SpecValues == InitValues /\ [][NextValues]_vars

(***************************************************************************)
(* Properties of init_model (checked under Spec)                           *)
(***************************************************************************)
Finished == DOMAIN results

\* the graph call c returned, as a node lookup by name
NodeOf(g, n) == g[CHOOSE i \in DOMAIN g : g[i].name = n]

Ok(c) == results[c].status = "ok"

\* the nodes stages 1-5 enumerate
StageNodes ==
    {"wet feedstock mass", "treatment area", "sample depth",
     "feedstock moisture fraction", "feedstock concentration",
     "dry feedstock mass", "application rate",
     "soil density", "soil mass", "mixing fraction", "mixed concentration",
     "enrichment", "enrichment sigma", "obs enriched",
     "control change", "control change sigma", "obs control",
     "norm loss mu", "norm loss sigma", "norm loss", "concentration loss",
     "weathered concentration", "weathered sigma", "obs weathered",
     "CDR potential (per mass)", "CDR potential (per area)", "CDR (per area)",
     "CDR [metric ton CO2]", "CDR completion [-]"}

\* C1 as stated: on a table holding the six required rows init_model
\* succeeds and the returned graph holds exactly 19 named nodes.
C1_NineteenNodes ==
    \A c \in Finished :
        ValidTable(TableFor(c)) =>
            /\ Ok(c)
            /\ Cardinality(Names(results[c].graph)) = 19

\* C1 amended: on a table holding the six required rows init_model succeeds
\* and the returned graph holds exactly the 29 nodes of stages 1-5, each
\* once.
C1_StageNodes ==
    \A c \in Finished :
        ValidTable(TableFor(c)) =>
            /\ Ok(c)
            /\ Len(results[c].graph) = 29
            /\ Names(results[c].graph) = StageNodes
            /\ Cardinality(StageNodes) = 29

C1_Witness ==
    \E c \in Finished : ValidTable(TableFor(c)) /\ Ok(c)

LacksOnly(t, k) == Present(t) \cap RequiredKeys = RequiredKeys \ {k}

\* C2: on a table without the (control, 3) row and with the other five
\* required rows, init_model fails with KeyError at "obs control", the
\* caller gets no model, and the graph under construction never holds an
\* observation node of the control-drift stage.
C2_MissingControlRound3 ==
    (call >= 1 /\ LacksOnly(df, C3)) =>
        /\ \A i \in DOMAIN model :
                ~(model[i].kind = "observation" /\ model[i].name = "obs control")
        /\ pc # Len(Program) + 1
        /\ (pc = Idle /\ Len(results) = call) =>
                /\ results[call].status = "KeyError"
                /\ results[call].at = "obs control"
                /\ results[call].graph = NoModel
                /\ {"control change", "control change sigma"} \subseteq Names(model)

C2_Witness ==
    /\ call >= 1
    /\ LacksOnly(df, C3)
    /\ pc = Idle
    /\ Len(results) = call
    /\ results[call].status = "KeyError"

\* C4 as stated: "weathered concentration" is the round-3 treatment row
\* minus (concentration loss - control change), and "obs weathered" binds
\* the round-3 treatment row to a Normal centred at it.
C4_WeatheredFromRound3 ==
    \A c \in Finished :
        Ok(c) =>
            LET g == results[c].graph IN
            /\ NodeOf(g, "weathered concentration").consts
                    = <<TableFor(c)[T3]>>
            /\ NodeOf(g, "obs weathered").observed = TableFor(c)[T3]

\* C4 amended: "weathered concentration" is the round-2 treatment row minus
\* (concentration loss - control change), and "obs weathered" binds the
\* round-3 treatment row to a Normal centred at that node.
C4_WeatheredFromRound2 ==
    \A c \in Finished :
        Ok(c) =>
            LET g == results[c].graph
                w == NodeOf(g, "weathered concentration")
                o == NodeOf(g, "obs weathered")
            IN  /\ w.kind = "deterministic"
                /\ w.expr = "$1 - (concentration loss - control change)"
                /\ w.consts = <<TableFor(c)[T2]>>
                /\ o.kind = "observation"
                /\ o.dist = "Normal"
                /\ o.params[1] = "mu=weathered concentration"
                /\ o.observed = TableFor(c)[T3]

C4_Witness ==
    \E c \in Finished :
        /\ Ok(c)
        /\ TableFor(c)[T2] # TableFor(c)[T3]

\* C5: "obs enriched" is a Normal with mean "enrichment" and scale
\* "enrichment sigma", bound to the round-2 treatment row minus the round-1
\* treatment row, analyte by analyte; for the rows 0.05,0.04 and 0.07,0.05
\* that is 0.02,0.01 (1000,800 and 1400,1000 give 400,200).
C5_ObsEnriched ==
    \A c \in Finished :
        Ok(c) =>
            LET o == NodeOf(results[c].graph, "obs enriched")
                t == TableFor(c)
            IN  /\ o.kind = "observation"
                /\ o.dist = "Normal"
                /\ o.params = <<"mu=enrichment", "sigma=enrichment sigma">>
                /\ Len(o.observed) = 2
                /\ \A a \in 1..2 : o.observed[a] = t[T2][a] - t[T1][a]
                /\ (t[T1] = <<1000, 800>> /\ t[T2] = <<1400, 1000>>)
                        => o.observed = <<400, 200>>

C5_Witness ==
    \E c \in Finished :
        /\ Ok(c)
        /\ TableFor(c)[T1] = <<1000, 800>>
        /\ TableFor(c)[T2] = <<1400, 1000>>

\* C6: calls of init_model on the same valid table all succeed, none with a
\* name collision, and return equal graphs (same nodes, same parameters,
\* same observed arrays).
C6_SameTableSameGraph ==
    \A c1, c2 \in Finished :
        (ValidTable(TableFor(c1)) /\ TableFor(c1) = TableFor(c2)) =>
            /\ Ok(c1)
            /\ Ok(c2)
            /\ results[c1].graph = results[c2].graph

C6_Witness ==
    /\ Len(results) >= 2
    /\ tableA = tableB
    /\ ValidTable(tableA)
    /\ Ok(2)

\* C9: two valid tables that agree on the six required rows give equal
\* graphs whatever their other rows hold, and the table a call was given is
\* the table it still has.
C9_OnlySixRowsRead ==
    /\ \A c1, c2 \in Finished :
            ( /\ ValidTable(TableFor(c1))
              /\ ValidTable(TableFor(c2))
              /\ AgreeOnRequired(TableFor(c1), TableFor(c2)) ) =>
                /\ Ok(c1)
                /\ Ok(c2)
                /\ results[c1].graph = results[c2].graph
    /\ call >= 1 => df = TableFor(call)

C9_Witness ==
    /\ Len(results) >= 2
    /\ ValidTable(tableA)
    /\ ValidTable(tableB)
    /\ \E k \in ExtraKeys : tableA[k] # tableB[k]
    /\ results[1].graph = results[2].graph

DeclaredOnce(g) == \A i, j \in DOMAIN g : g[i].name = g[j].name => i = j

ParentsFirst(g) ==
    \A i \in DOMAIN g : g[i].parents \subseteq {g[j].name : j \in 1..(i - 1)}

\* C10: the graph under construction always holds each name once and every
\* node after the nodes its arguments refer to; no call ends in a name
\* collision, and a returned graph has both properties too.
C10_DeclaredOnceInOrder ==
    /\ DeclaredOnce(model)
    /\ ParentsFirst(model)
    /\ \A c \in Finished :
            /\ results[c].status # "ValueError"
            /\ DeclaredOnce(results[c].graph)
            /\ ParentsFirst(results[c].graph)
            /\ ValidTable(TableFor(c)) => Ok(c)

C10_Witness ==
    /\ pc = Len(Program) + 1
    /\ Len(model) = Len(Program)
    /\ \E i \in DOMAIN model : model[i].parents # {}

(***************************************************************************)
(* Properties of the deterministic nodes (checked under SpecValues)        *)
(***************************************************************************)
InOpenUnitInterval(x) == Finite(x) /\ x.n > 0 /\ x.n < x.d

\* C3 as stated: at every value the latent parameters can take, "mixing
\* fraction" lies strictly between 0 and 1.
C3_AlwaysInUnitInterval ==
    value # <<>> => InOpenUnitInterval(value.mixing_fraction)

\* C3 amended: at every value of the latent parameters at which application
\* rate and soil mass are both positive, "mixing fraction" lies strictly
\* between 0 and 1.
C3_InUnitIntervalWhenPositive ==
    ( /\ value # <<>>
      /\ RPositive(value.application_rate)
      /\ RPositive(value.soil_mass) ) =>
        InOpenUnitInterval(value.mixing_fraction)

C3_Witness ==
    /\ value # <<>>
    /\ RPositive(value.application_rate)
    /\ RPositive(value.soil_mass)
    /\ InOpenUnitInterval(value.mixing_fraction)

(***************************************************************************)
(* Properties of load_realization (checked under SpecExtract)              *)
(***************************************************************************)
Returned == out # <<>>

ControlLabel   == StrLabel("control")
TreatmentLabel == StrLabel("treatment")

\* C7 as stated: every row of the returned table is labelled "control" or
\* "treatment", whatever the cube.
C7_OnlyTwoLabels ==
    Returned =>
        \A k \in DOMAIN out[1].table.rows :
            out[1].table.rows[k].control \in {ControlLabel, TreatmentLabel}

BinaryTags == \A i \in DOMAIN ds.control : ds.control[i] \in {0, 1}

\* the row of the returned table that carries sample i's data
RowOfSample(i) ==
    CHOOSE k \in DOMAIN out[1].table.rows :
        out[1].table.rows[k].vals = SliceRow(ds.data, i, out[1].realization)

\* C7 amended: for every cube whose plot-type tags are all 0 or 1, every row
\* of the returned table is labelled "control" or "treatment": "control"
\* on the rows of the samples tagged 1, "treatment" on those tagged 0.
C7_TwoLabelsForBinaryTags ==
    (Returned /\ BinaryTags) =>
        /\ \A k \in DOMAIN out[1].table.rows :
              out[1].table.rows[k].control \in {ControlLabel, TreatmentLabel}
        /\ \A i \in DOMAIN ds.control :
              out[1].table.rows[RowOfSample(i)].control =
                  IF ds.control[i] = 1 THEN ControlLabel ELSE TreatmentLabel

C7_Witness ==
    /\ Returned
    /\ BinaryTags
    /\ \E i, j \in DOMAIN ds.control : ds.control[i] = 1 /\ ds.control[j] = 0

CompleteTrial ==
    /\ Len(ds.control) = 6
    /\ {<<ds.control[i], ds.round[i]>> : i \in DOMAIN ds.control}
            = {0, 1} \X {1, 2, 3}

\* C8: the returned table has the analyte columns but the last, its rows
\* are the samples' rows of the chosen realization with their values and
\* rounds as they were, one row per sample (6 for the 2 x 3 combinations),
\* in ascending order of (label, round).
C8_SortedPermutation ==
    Returned =>
        LET rows == out[1].table.rows
            r    == out[1].realization
        IN  /\ out[1].table.columns = [a \in 1..(Len(ds.analytes) - 1) |->
                                            ds.analytes[a]]
            /\ Len(rows) = Len(ds.control)
            /\ CompleteTrial => Len(rows) = 6
            /\ \A k \in DOMAIN rows : Len(rows[k].vals) = Len(ds.analytes) - 1
            /\ \A i \in DOMAIN ds.control : \E k \in DOMAIN rows :
                    /\ rows[k].round = ds.round[i]
                    /\ \A a \in 1..(Len(ds.analytes) - 1) :
                          rows[k].vals[a] = ds.data[i][a][r + 1]
            /\ \A k \in DOMAIN rows : \E i \in DOMAIN ds.control :
                    /\ rows[k].round = ds.round[i]
                    /\ \A a \in 1..(Len(ds.analytes) - 1) :
                          rows[k].vals[a] = ds.data[i][a][r + 1]
            /\ \A k \in 1..(Len(rows) - 1) :
                    \/ LabelLess(rows[k].control, rows[k + 1].control)
                    \/ /\ rows[k].control = rows[k + 1].control
                       /\ rows[k].round <= rows[k + 1].round

C8_Witness ==
    /\ Returned
    /\ CompleteTrial
    /\ Len(out[1].table.rows) = 6
    /\ out[1].table.rows # Frame(ds, out[1].realization)

====
